---- MODULE Spec2Model ----
(***************************************************************************)
(* TimeBandit: a Graph (bandit/graph.py) of Objects (bandit/object.py,     *)
(* bandit/state.py).  Graph.update() ticks every member object once and    *)
(* rebuilds the dict object_states; Object.update() runs the custom        *)
(* _update, advances the clock, refreshes the temporal id and hands the    *)
(* state to the history.                                                   *)
(*                                                                         *)
(* bandit.clock, bandit.identity, bandit.ticker and temporal.TemporalObject*)
(* are imported by the sources but are not part of them; their behaviour   *)
(* is taken from the specification (ClockUpdate, HistoryAppend).           *)
(***************************************************************************)
EXTENDS Integers, Sequences, FiniteSets, TLC

VARIABLES
    objs,           \* the constructed Object instances: o -> its fields
    nodes,          \* Graph (nx.DiGraph) nodes in insertion order: <<[id, object]>>
    object_states,  \* Graph.object_states: root_id -> state returned by update()
    ret,            \* the last call on the graph and how it ended
    ticked,         \* per object: calls of its update() by the last Graph.update()
    ticks,          \* per object: number of clock advances since construction
    stepsSeen,      \* per object: Graph.update() calls that returned while it was
                    \* a member; Tainted once such a call raised
    issued,         \* per object: the temporal ids Object.update() gave it, in order
    run,            \* SpecPhases: Graph.update() in progress, node by node
    buf             \* SpecHistory: one history buffer and what was appended to it

vars == <<objs, nodes, object_states, ret, ticked, ticks, stepsSeen,
          issued, run, buf>>

----------------------------------------------------------------------------
(* Bounds and the small input sets *)

MaxTicks == 3          \* Spec: no object's clock advances more often than this
MaxClockTicks == 5     \* SpecClock: the same, for the runs without failures
Capacity == 2          \* length of an object's history window
MaxCapacity == 3       \* SpecHistory: the buffer is built with 1..MaxCapacity
MaxAppends == 4        \* SpecHistory: clock advances of the buffer's owner
MaxPhaseTicks == 2     \* SpecPhases, SpecTicks: clock advances per object

Objs == {"o1", "o2"}
StepSizes == {1, 2}
ClockStepSizes == {1, 2, 5}
None == "none"
Tainted == 0 - 1

\* Ways one Object.update() can end: normally, with the custom _update
\* raising, or with the subclass's state() raising.
Outcomes == {"ok", "update_raises", "state_raises"}

\* root_id of the constructed objects: bandit/state.py gives every object the
\* literal "root"; the Identity of bandit/object.py gives each its own.
SameRoot == [o \in Objs |-> "root"]
OwnRoot == [o \in Objs |-> IF o = "o1" THEN "r1" ELSE "r2"]
RootAssignments == {SameRoot, OwnRoot}

Roots == {"root", "r1", "r2"}

EmptyMap == [r \in {} |-> None]

----------------------------------------------------------------------------
(* Object *)

\* Mutant of Temporal: the step is left out of the formatted id.
TemporalWithoutStep(root, cycle, step) == <<root, cycle, 0>>

\* f"{root_id}.{cycle}.{step}": the three parts, in order
Temporal(root, cycle, step) == <<root, cycle, step>>

\* Mutant of NewObject: the clock starts in cycle 0.
NewObjectCycleZero(root, step_size) ==
    [ step_size   |-> step_size,
      root_id     |-> root,
      cycle       |-> 0,
      step        |-> 0,
      temporal_id |-> <<"temporal">>,
      history     |-> << >> ]

\* Object.__init__: cycle 1, step 0, the placeholder temporal id, an empty
\* history.
NewObject(root, step_size) ==
    [ step_size   |-> step_size,
      root_id     |-> root,
      cycle       |-> 1,
      step        |-> 0,
      temporal_id |-> <<"temporal">>,
      history     |-> << >> ]

\* Clock.update(): one step forward, wrapping into the next cycle.
ClockUpdate(self) ==
    IF self.step + 1 = self.step_size
    THEN [self EXCEPT !.cycle = self.cycle + 1, !.step = 0]
    ELSE [self EXCEPT !.step = self.step + 1]

\* Identity.update(clock)
IdentityUpdate(self) ==
    [self EXCEPT !.temporal_id = Temporal(self.root_id, self.cycle, self.step)]

\* Object.state()
State(self) ==
    [ step_size   |-> self.step_size,
      root_id     |-> self.root_id,
      temporal_id |-> self.temporal_id,
      cycle       |-> self.cycle,
      step        |-> self.step ]

\* Mutant of BufferAppend: a full buffer drops the new item, not the oldest.
BufferAppendKeepsOldest(items, capacity, item) ==
    IF Len(items) < capacity THEN Append(items, item) ELSE items

\* HistoryBuffer.append: a full buffer loses its oldest entry to the new one.
BufferAppend(items, capacity, item) ==
    IF Len(items) < capacity
    THEN Append(items, item)
    ELSE Append(Tail(items), item)

\* Mutant of LastN: the n oldest entries.
LastNOldest(items, n) ==
    IF n <= 0 THEN << >>
    ELSE IF n >= Len(items) THEN items
    ELSE SubSeq(items, 1, n)

\* HistoryBuffer.lastN(n): the min(n, count) newest entries, oldest first.
LastN(items, n) ==
    IF n <= 0 THEN << >>
    ELSE IF n >= Len(items) THEN items
    ELSE SubSeq(items, Len(items) - n + 1, Len(items))

\* TemporalObject.update(state, temporal): keep the last Capacity states.
HistoryAppend(history, state) == BufferAppend(history, Capacity, state)

\* Mutant of ObjectUpdate: clock.update() is left out.
ObjectUpdateNoClock(self, outcome) ==
    IF outcome = "update_raises"
    THEN [self |-> self, raised |-> TRUE, value |-> State(self), advanced |-> 0,
          issued |-> << >>, saw |-> <<self.cycle, self.step>>]
    ELSE LET clocked == IdentityUpdate(self)
         IN  IF outcome = "state_raises"
             THEN [self |-> clocked, raised |-> TRUE, value |-> State(clocked),
                   advanced |-> 0, issued |-> <<clocked.temporal_id>>,
                   saw |-> <<self.cycle, self.step>>]
             ELSE [self     |-> [clocked EXCEPT !.history =
                                     HistoryAppend(clocked.history, State(clocked))],
                   raised   |-> FALSE,
                   value    |-> State(clocked),
                   advanced |-> 0,
                   issued   |-> <<clocked.temporal_id>>,
                   saw      |-> <<self.cycle, self.step>>]

\* Object.update(): _update(); clock.update(); id.update(clock);
\* return super().update(self.state(), self.id.temporal)
\* (advanced: how often this call moved the clock; issued: the temporal ids
\* id.update() produced; saw: the <<cycle, step>> the custom _update ran against)
ObjectUpdate(self, outcome) ==
    IF outcome = "update_raises"
    THEN [self |-> self, raised |-> TRUE, value |-> State(self), advanced |-> 0,
          issued |-> << >>, saw |-> <<self.cycle, self.step>>]
    ELSE LET clocked == IdentityUpdate(ClockUpdate(self))
         IN  IF outcome = "state_raises"
             THEN [self |-> clocked, raised |-> TRUE, value |-> State(clocked),
                   advanced |-> 1, issued |-> <<clocked.temporal_id>>,
                   saw |-> <<self.cycle, self.step>>]
             ELSE [self     |-> [clocked EXCEPT !.history =
                                     HistoryAppend(clocked.history, State(clocked))],
                   raised   |-> FALSE,
                   value    |-> State(clocked),
                   advanced |-> 1,
                   issued   |-> <<clocked.temporal_id>>,
                   saw      |-> <<self.cycle, self.step>>]

----------------------------------------------------------------------------
(* Graph *)

NodeIds == {nodes[i].id : i \in 1..Len(nodes)}
NodeObjects == {nodes[i].object : i \in 1..Len(nodes)}

RemoveAt(s, i) == SubSeq(s, 1, i - 1) \o SubSeq(s, i + 1, Len(s))

Put(map, key, value) == (key :> value) @@ map

\* Graph.state
GraphState(states) ==
    [object_count |-> Cardinality(DOMAIN states), object_states |-> states]

\* the last call on the graph, its argument, and how it ended: by raising
\* (and, in Graph.update(), in which object's update()) or by returning
Result(op, arg, raised, by) ==
    [op |-> op, arg |-> arg, raised |-> raised, by |-> by]

\* The aggregate a caller still holds from an earlier Graph.update(): its
\* contents, and whether it is the very dict self.object_states refers to.
NotHeld == [value |-> EmptyMap, shared |-> FALSE]

\* No Graph.update() is in progress.
Idle == [phase |-> "Idle", cursor |-> 0, size |-> 0, began |-> << >>,
         saw |-> << >>, held |-> NotHeld]

\* The history buffer is used by SpecHistory alone.
NoBuffer == [capacity |-> 0, items |-> << >>, appended |-> << >>,
             n |-> 0, read |-> << >>]

\* Graph.__init__: no nodes, object_states = {}; the objects as constructed.
\* (The assignment to self.state that follows in __init__ targets the
\* read-only property and is not part of the state.)
InitWith(sizes, assignments) ==
    /\ \E k \in sizes : \E roots \in assignments :
           objs = [o \in Objs |-> NewObject(roots[o], k)]
    /\ nodes = << >>
    /\ object_states = EmptyMap
    /\ ret = Result("init", None, FALSE, None)
    /\ ticked = [o \in Objs |-> 0]
    /\ ticks = [o \in Objs |-> 0]
    /\ stepsSeen = [o \in Objs |-> 0]
    /\ issued = [o \in Objs |-> << >>]
    /\ run = Idle
    /\ buf = NoBuffer

Init == InitWith(StepSizes, RootAssignments)

\* Graph.add_object(object): self.add_node(object.root_id, object=object).
\* A node that exists keeps its place and has its attribute overwritten.
AddNode(ns, id, object) ==
    IF \E i \in 1..Len(ns) : ns[i].id = id
    THEN [i \in 1..Len(ns) |->
             IF ns[i].id = id THEN [ns[i] EXCEPT !.object = object] ELSE ns[i]]
    ELSE Append(ns, [id |-> id, object |-> object])

AddObject(o) ==
    /\ nodes' = AddNode(nodes, objs[o].root_id, o)
    /\ ret' = Result("add_object", o, FALSE, None)
    /\ UNCHANGED <<objs, object_states, ticked, ticks, stepsSeen, issued, run, buf>>

\* Graph.remove_object(object): self.remove_node(object).  networkx raises
\* NetworkXError when the argument is not a node; the nodes are root ids.
RemoveNode(ns, n) ==
    IF \E i \in 1..Len(ns) : ns[i].id = n
    THEN RemoveAt(ns, CHOOSE i \in 1..Len(ns) : ns[i].id = n)
    ELSE ns

RemoveObject(x) ==
    /\ nodes' = RemoveNode(nodes, x)
    /\ ret' = Result("remove_object", x, x \notin NodeIds, None)
    /\ UNCHANGED <<objs, object_states, ticked, ticks, stepsSeen, issued, run, buf>>

\* What the loop of Graph.update() starts from: the objects, the dict to
\* fill, and nothing called yet.
LoopStart(os, states) ==
    [objs |-> os, object_states |-> states,
     ticked |-> [o \in Objs |-> 0], advanced |-> [o \in Objs |-> 0],
     issued |-> [o \in Objs |-> << >>],
     raised |-> FALSE, by |-> None]

\* The loop of Graph.update() from node i on: st carries the objects, the
\* dict being filled and the calls made; an exception ends the loop.
RECURSIVE UpdateLoop(_, _, _, _)
UpdateLoop(ns, i, st, outcome) ==
    IF i > Len(ns)
    THEN st
    ELSE LET o == ns[i].object
             r == ObjectUpdate(st.objs[o], outcome[o])
             visited == [st EXCEPT !.objs[o] = r.self,
                                   !.ticked[o] = st.ticked[o] + 1,
                                   !.advanced[o] = st.advanced[o] + r.advanced,
                                   !.issued[o] = st.issued[o] \o r.issued]
         IN  IF r.raised
             THEN [visited EXCEPT !.raised = TRUE, !.by = o]
             ELSE UpdateLoop(ns, i + 1,
                      [visited EXCEPT !.object_states =
                           Put(visited.object_states, r.self.root_id, r.value)],
                      outcome)

\* Mutant of GraphUpdate: the loop misses the first node.
GraphUpdateSkipsFirst(ns, os, old, outcome) ==
    UpdateLoop(ns, 2, LoopStart(os, EmptyMap), outcome)

\* Mutant of GraphUpdate: object_states is not reset, the new entries are
\* merged into the old dict.
GraphUpdateMerges(ns, os, old, outcome) ==
    UpdateLoop(ns, 1, LoopStart(os, old), outcome)

\* Graph.update(): self.object_states = {}; tick every object; return self.state
GraphUpdate(ns, os, old, outcome) ==
    UpdateLoop(ns, 1, LoopStart(os, EmptyMap), outcome)

Update(outcome, cap) ==
    /\ \A o \in NodeObjects : ticks[o] < cap
    /\ LET st == GraphUpdate(nodes, objs, object_states, outcome)
       IN  /\ objs' = st.objs
           /\ object_states' = st.object_states
           /\ ticked' = st.ticked
           /\ ret' = Result("update", None, st.raised, st.by)
           /\ ticks' = [o \in Objs |-> ticks[o] + st.advanced[o]]
           /\ issued' = [o \in Objs |-> issued[o] \o st.issued[o]]
           /\ stepsSeen' = [o \in Objs |->
                           IF o \notin NodeObjects \/ stepsSeen[o] = Tainted
                           THEN stepsSeen[o]
                           ELSE IF st.raised THEN Tainted ELSE stepsSeen[o] + 1]
    /\ UNCHANGED <<nodes, run, buf>>

\* one call of Graph.update(), each member's update() ending as outcome says
Step == \E outcome \in [NodeObjects -> Outcomes] : Update(outcome, MaxTicks)

\* one call of Graph.update() in which no update() raises
StepOk == Update([o \in NodeObjects |-> "ok"], MaxClockTicks)

Next ==
    \/ \E o \in Objs : AddObject(o)
    \/ \E x \in Roots \cup Objs : RemoveObject(x)
    \/ Step

Spec == Init /\ [][Next]_vars

\* The same graph driven without failing collaborators, over more step sizes
\* and longer runs.
InitClock == InitWith(ClockStepSizes, {OwnRoot})

NextClock ==
    \/ \E o \in Objs : AddObject(o)
    \/ \E x \in Roots : RemoveObject(x)
    \/ StepOk

SpecClock == InitClock /\ [][NextClock]_vars

----------------------------------------------------------------------------
(* The Object of bandit/state.py on its own *)

\* Object.state (the property): it builds ObjectState(...), whose __init__
\* calls State.__init__() without the required argument `variables`, a
\* TypeError; value is what the fields passed to it were.
StateProperty(self) == [raised |-> TRUE, value |-> State(self)]

\* Object.update(): self._cycle, self._step = self.tic.tok; return self.state
\* (encode_self is not called: temporal_id stays as it was)
PlainObjectUpdate(self) ==
    LET clocked == ClockUpdate(self)
        st == StateProperty(clocked)
    IN  [self |-> clocked, raised |-> st.raised, value |-> st.value]

PlainUpdate(o) ==
    /\ ticks[o] < MaxClockTicks
    /\ LET r == PlainObjectUpdate(objs[o])
       IN  /\ objs' = [objs EXCEPT ![o] = r.self]
           /\ ret' = Result("object_update", o, r.raised, o)
    /\ ticks' = [ticks EXCEPT ![o] = ticks[o] + 1]
    /\ UNCHANGED <<nodes, object_states, ticked, stepsSeen, issued, run, buf>>

\* Object.id(encode=True): encode_self(), then return temporal_id
EncodeSelf(o) ==
    /\ objs' = [objs EXCEPT ![o] = IdentityUpdate(objs[o])]
    /\ ret' = Result("id", o, FALSE, None)
    /\ UNCHANGED <<nodes, object_states, ticked, ticks, stepsSeen, issued,
                   run, buf>>

InitState == InitWith(ClockStepSizes, {SameRoot})

NextState ==
    \/ \E o \in Objs : PlainUpdate(o)
    \/ \E o \in Objs : EncodeSelf(o)

SpecState == InitState /\ [][NextState]_vars

----------------------------------------------------------------------------
(* The history of one object (bandit/object.py), held in a buffer of a     *)
(* capacity chosen at construction, next to the object's own history.      *)

Owner == "o1"

NewBuffer(capacity) ==
    [capacity |-> capacity, items |-> << >>, appended |-> << >>,
     n |-> 0, read |-> << >>]

InitHistory ==
    /\ \E k \in StepSizes : objs = [o \in Objs |-> NewObject(OwnRoot[o], k)]
    /\ nodes = << >>
    /\ object_states = EmptyMap
    /\ ret = Result("init", None, FALSE, None)
    /\ ticked = [o \in Objs |-> 0]
    /\ ticks = [o \in Objs |-> 0]
    /\ stepsSeen = [o \in Objs |-> 0]
    /\ issued = [o \in Objs |-> << >>]
    /\ run = Idle
    /\ \E c \in 1..MaxCapacity : buf = NewBuffer(c)

\* Owner.update(): the state handed to super().update() is appended; a call
\* that raises before that line appends nothing.
HistoryTick(outcome) ==
    /\ ticks[Owner] < MaxAppends
    /\ LET r == ObjectUpdate(objs[Owner], outcome)
       IN  /\ objs' = [objs EXCEPT ![Owner] = r.self]
           /\ ret' = Result("object_update", Owner, r.raised, Owner)
           /\ ticks' = [ticks EXCEPT ![Owner] = @ + r.advanced]
           /\ issued' = [issued EXCEPT ![Owner] = @ \o r.issued]
           /\ buf' = IF r.raised THEN buf
                     ELSE [buf EXCEPT
                              !.items = BufferAppend(@, buf.capacity, r.value),
                              !.appended = Append(@, r.value)]
    /\ UNCHANGED <<nodes, object_states, ticked, stepsSeen, run>>

\* lastN(n) on the buffer; buf.read keeps what the call returned.
HistoryLastN(n) ==
    /\ buf' = [buf EXCEPT !.n = n, !.read = LastN(buf.items, n)]
    /\ ret' = Result("lastN", Owner, FALSE, None)
    /\ UNCHANGED <<objs, nodes, object_states, ticked, ticks, stepsSeen,
                   issued, run>>

NextHistory ==
    \/ \E outcome \in Outcomes : HistoryTick(outcome)
    \/ \E n \in (0 - 1)..(MaxAppends + 1) : HistoryLastN(n)

SpecHistory == InitHistory /\ [][NextHistory]_vars

----------------------------------------------------------------------------
(* Graph.update() node by node: the generator Graph.objects walks the live *)
(* node dict of the graph, and the custom _update of the object being      *)
(* ticked may itself call add_object / remove_object on the graph.         *)

NoCall == [op |-> "none", arg |-> None]

Calls ==
    {NoCall} \cup {[op |-> "add", arg |-> o] : o \in Objs}
             \cup {[op |-> "remove", arg |-> x] : x \in Roots \cup Objs}

\* The nodes after the call made from inside _update, and whether the call
\* raised (remove_node of something that is not a node).
CallEffect(ns, os, call) ==
    IF call.op = "add"
    THEN [nodes |-> AddNode(ns, os[call.arg].root_id, call.arg), raised |-> FALSE]
    ELSE IF call.op = "remove"
    THEN [nodes  |-> RemoveNode(ns, call.arg),
          raised |-> ~(\E i \in 1..Len(ns) : ns[i].id = call.arg)]
    ELSE [nodes |-> ns, raised |-> FALSE]

\* Mutant of Rebind: the dict is emptied in place.
RebindClears(held) == [value |-> EmptyMap, shared |-> held.shared]

\* self.object_states = {}: the attribute is bound to a new dict; a dict
\* handed out earlier is no longer the one the graph writes to.
Rebind(held) == [value |-> held.value, shared |-> FALSE]

\* What the caller's dict holds once self.object_states has become states.
Seen(held, states) == IF held.shared THEN [held EXCEPT !.value = states] ELSE held

\* Graph.update() is entered: object_states = {} and the generator is made.
BeginUpdate ==
    /\ run.phase = "Idle"
    /\ \A o \in Objs : ticks[o] < MaxPhaseTicks
    /\ object_states' = EmptyMap
    /\ ticked' = [o \in Objs |-> 0]
    /\ run' = [phase |-> "Stepping", cursor |-> 0, size |-> Len(nodes),
               began |-> nodes, saw |-> << >>,
               held |-> Seen(Rebind(run.held), EmptyMap)]
    /\ ret' = Result("update_begin", None, FALSE, None)
    /\ UNCHANGED <<objs, nodes, ticks, stepsSeen, issued, buf>>

\* One pass of the loop: the generator yields the next node's object, whose
\* update() is called; _update makes the call first.  An exception leaves
\* Graph.update().
TickOne(outcome, call) ==
    /\ run.phase = "Stepping"
    /\ Len(nodes) = run.size
    /\ run.cursor < Len(nodes)
    /\ LET o == nodes[run.cursor + 1].object
           c == CallEffect(nodes, objs, call)
           r == ObjectUpdate(objs[o], IF c.raised THEN "update_raises" ELSE outcome)
           states == IF r.raised THEN object_states
                     ELSE Put(object_states, r.self.root_id, r.value)
       IN  /\ nodes' = c.nodes
           /\ objs' = [objs EXCEPT ![o] = r.self]
           /\ object_states' = states
           /\ ticked' = [ticked EXCEPT ![o] = @ + 1]
           /\ ticks' = [ticks EXCEPT ![o] = @ + r.advanced]
           /\ issued' = [issued EXCEPT ![o] = @ \o r.issued]
           /\ ret' = Result("update", None, r.raised, IF r.raised THEN o ELSE None)
           /\ run' = IF r.raised
                     THEN [Idle EXCEPT !.held = run.held]
                     ELSE [run EXCEPT !.cursor = @ + 1, !.saw = r.saw,
                                      !.held = Seen(@, states)]
    /\ UNCHANGED <<stepsSeen, buf>>

\* The generator is resumed after the node dict changed size: RuntimeError.
IterationRaises ==
    /\ run.phase = "Stepping"
    /\ Len(nodes) # run.size
    /\ ret' = Result("update", None, TRUE, None)
    /\ run' = [Idle EXCEPT !.held = run.held]
    /\ UNCHANGED <<objs, nodes, object_states, ticked, ticks, stepsSeen,
                   issued, buf>>

\* The generator is exhausted: return self.state.
EndUpdate ==
    /\ run.phase = "Stepping"
    /\ Len(nodes) = run.size
    /\ run.cursor = Len(nodes)
    /\ ret' = Result("update", None, FALSE, None)
    /\ run' = [Idle EXCEPT !.held = [value |-> object_states, shared |-> TRUE]]
    /\ UNCHANGED <<objs, nodes, object_states, ticked, ticks, stepsSeen,
                   issued, buf>>

\* add_object / remove_object called by the application between two steps
IdleAdd(o) == run.phase = "Idle" /\ AddObject(o)
IdleRemove(x) == run.phase = "Idle" /\ RemoveObject(x)

NextPhases ==
    \/ \E o \in Objs : IdleAdd(o)
    \/ \E x \in Roots \cup Objs : IdleRemove(x)
    \/ BeginUpdate
    \/ \E outcome \in Outcomes : \E call \in Calls : TickOne(outcome, call)
    \/ IterationRaises
    \/ EndUpdate

SpecPhases == Init /\ [][NextPhases]_vars

\* The same with objects whose _update leaves the graph alone.
NextTicks ==
    \/ \E o \in Objs : IdleAdd(o)
    \/ \E x \in Roots \cup Objs : IdleRemove(x)
    \/ BeginUpdate
    \/ \E outcome \in Outcomes : TickOne(outcome, NoCall)
    \/ EndUpdate

SpecTicks == Init /\ [][NextTicks]_vars

----------------------------------------------------------------------------
(* Properties *)

LastWasUpdate == ret.op = "update"
ObjectAt(id) == nodes[CHOOSE i \in 1..Len(nodes) : nodes[i].id = id].object
Clock(o) == <<objs[o].cycle, objs[o].step>>

\* C1 - partial-failure containment: when one object's update() raises during
\* Graph.update() and members come after it in the iteration, every other
\* member is still ticked exactly once, the aggregate has one entry for each
\* of the N-1 others, and the call returns (reporting the failing root)
\* instead of raising.
RaisedBeforeLast ==
    /\ LastWasUpdate
    /\ ret.by # None
    /\ nodes[Len(nodes)].object # ret.by

C1_PartialFailureContained ==
    RaisedBeforeLast =>
        /\ \A o \in NodeObjects \ {ret.by} : ticked[o] = 1
        /\ Cardinality(DOMAIN object_states) = Len(nodes) - 1
        /\ ~ret.raised

\* C2 - aggregate completeness: a Graph.update() in which no update() raises
\* has called update() exactly once on every member and on nothing else, and
\* leaves exactly one entry per member root, holding that member's state.
C2_AggregateComplete ==
    (LastWasUpdate /\ ~ret.raised) =>
        /\ \A o \in Objs : ticked[o] = IF o \in NodeObjects THEN 1 ELSE 0
        /\ DOMAIN object_states = NodeIds
        /\ \A r \in NodeIds : object_states[r] = State(objs[ObjectAt(r)])
        /\ ret.by = None

C2_Witness ==
    /\ LastWasUpdate /\ ~ret.raised
    /\ Len(nodes) = 2
    /\ \E o \in Objs : ticks[o] >= 2

\* C3 - every key of object_states is the root of a current member, in every
\* reachable state (also right after remove_object).
C3_AggregateKeysAreMembers == DOMAIN object_states \subseteq NodeIds

\* C4 - atomic publication: a call either leaves object_states as it was or
\* replaces it by a complete aggregate (one entry per member); no call leaves
\* behind an aggregate with only some of the members' entries.
C4_AggregatePublishedWhole ==
    [][ \/ object_states' = object_states
        \/ DOMAIN object_states' = NodeIds' ]_vars

\* C5 - replaced, not merged: after Graph.update(), however it ended, every
\* entry of object_states was produced by an update() call of this very
\* Graph.update() and is the state that call returned.
C5_AggregateReplaced ==
    LastWasUpdate =>
        \A r \in DOMAIN object_states :
            \E o \in Objs : /\ ticked[o] >= 1
                            /\ ret.by # o
                            /\ objs[o].root_id = r
                            /\ object_states[r] = State(objs[o])

C5_Witness ==
    /\ LastWasUpdate
    /\ DOMAIN object_states = {"r1"}
    /\ Len(objs["o2"].history) > 0
    /\ "r2" \notin NodeIds

\* C6 - transactional tick: an update() that raises leaves the object's
\* clock, temporal id and history exactly as they were before the call.
C6_FailedTickRollsBack ==
    [][ \A o \in Objs :
          (ret'.op = "update" /\ ret'.by = o) => objs'[o] = objs[o] ]_vars

\* C7 - add_object of an object whose root is already a node fails and leaves
\* the nodes, the stored object and object_states unchanged.
C7_DuplicateRootRejected ==
    [][ \A o \in Objs :
          (AddObject(o) /\ objs[o].root_id \in NodeIds) =>
              /\ ret'.raised
              /\ nodes' = nodes
              /\ object_states' = object_states ]_vars

\* C8 - remove_object fails, leaving the graph unchanged, exactly when what it
\* is given (an object, or its root) is not a member; for a member it
\* succeeds and the object is a member no longer.
Designates(x, o) == x = o \/ x = objs[o].root_id

C8_RemoveFailsOnlyForNonMembers ==
    [][ \A x \in Roots \cup Objs :
          RemoveObject(x) =>
              LET member == \E o \in NodeObjects : Designates(x, o)
              IN  /\ ret'.raised <=> ~member
                  /\ ret'.raised => nodes' = nodes
                  /\ ~ret'.raised =>
                        \A o \in NodeObjects :
                            Designates(x, o) => o \notin NodeObjects' ]_vars

\* C9 - clock invariant: a clock starts at cycle 1, step 0; step stays in
\* [0, step_size) and cycle >= 1; an advance that would bring step to
\* step_size sets step to 0 and adds 1 to cycle, any other advance adds 1 to
\* step and keeps cycle; without an advance the clock does not move.
ClockInRange(o) ==
    /\ objs[o].step >= 0
    /\ objs[o].step < objs[o].step_size
    /\ objs[o].cycle >= 1
    /\ ticks[o] = 0 => Clock(o) = <<1, 0>>

C9_ClockInvariant ==
    [][ \A o \in Objs :
          /\ ClockInRange(o)
          /\ ClockInRange(o)'
          /\ ticks'[o] \in {ticks[o], ticks[o] + 1}
          /\ ticks'[o] = ticks[o] => Clock(o)' = Clock(o)
          /\ ticks'[o] = ticks[o] + 1 =>
                IF objs[o].step + 1 = objs[o].step_size
                THEN Clock(o)' = <<objs[o].cycle + 1, 0>>
                ELSE Clock(o)' = <<objs[o].cycle, objs[o].step + 1>> ]_vars

C9_Witness ==
    \E o \in Objs : /\ objs[o].step_size = 2
                    /\ ticks[o] = 3
                    /\ Clock(o) = <<2, 1>>

\* C10 - clock periodicity: after n advances a clock of step size k reads
\* cycle 1 + n \div k, step n % k, so k advances from step 0 add exactly 1 to
\* cycle and bring step back to 0 (k in 1, 2, 5); and an object of step size
\* 2 that was a member during three Graph.update() calls since its creation
\* reads cycle 2, step 1.
C10_ClockPeriodic ==
    \A o \in Objs :
        /\ Clock(o) = <<1 + (ticks[o] \div objs[o].step_size),
                        ticks[o] % objs[o].step_size>>
        /\ (objs[o].step_size = 2 /\ stepsSeen[o] = 3) => Clock(o) = <<2, 1>>

C10_Witness ==
    /\ Len(nodes) = 2
    /\ \A o \in Objs : /\ objs[o].step_size = 2
                       /\ stepsSeen[o] = 3
                       /\ Clock(o) = <<2, 1>>

\* C11 - temporal identity uniqueness and order: the temporal ids an object's
\* identity is given over its ticks carry strictly increasing <<cycle, step>>
\* pairs (lexicographic order), so no two of them are equal and no refresh
\* comes with a pair at or below an earlier one.
LexLess(a, b) == a[1] < b[1] \/ (a[1] = b[1] /\ a[2] < b[2])
PairOf(temporal) == <<temporal[2], temporal[3]>>

TemporalIsCurrent(o) ==
    objs[o].temporal_id = Temporal(objs[o].root_id, objs[o].cycle, objs[o].step)

C12_TemporalFollowsClock ==
    [][ \A o \in Objs :
          ticks'[o] = ticks[o] + 1 =>
              /\ TemporalIsCurrent(o)'
              /\ \A r \in DOMAIN object_states' :
                    (ret'.op = "update" /\ ticked'[o] = 1 /\ ret'.by # o
                     /\ r = objs[o].root_id)
                        => object_states'[r] = State(objs'[o]) ]_vars

\* C13 - root identity: an object's root_id never changes, and the roots of
\* distinct objects differ, so adding an object makes it a member next to
\* all the members there were (none is displaced).
C13_RootsSeparateObjects ==
    [][ /\ \A o \in Objs : objs'[o].root_id = objs[o].root_id
        /\ \A o \in Objs :
              AddObject(o) => /\ NodeObjects' = NodeObjects \cup {o}
                              /\ \A p \in NodeObjects \ {o} :
                                    objs[p].root_id # objs[o].root_id ]_vars

\* The last m entries of a sequence.
Newest(seq, m) == SubSeq(seq, Len(seq) - m + 1, Len(seq))

Min(a, b) == IF a < b THEN a ELSE b

\* C14 - history bound and FIFO overwrite: after any appends the buffer
\* holds the min(number of appends, capacity) newest of them in insertion
\* order (so does the owner's own history, of capacity Capacity); an append
\* onto a full buffer evicts exactly the oldest entry, one onto a buffer
\* that is not full evicts nothing.
C14_HistoryBoundedFifo ==
    [][ /\ buf'.items =
              Newest(buf'.appended, Min(Len(buf'.appended), buf'.capacity))
        /\ objs'[Owner].history =
              Newest(buf'.appended, Min(Len(buf'.appended), Capacity))
        /\ Len(buf'.appended) = Len(buf.appended) + 1 =>
              IF Len(buf.items) = buf.capacity
              THEN buf'.items = Append(Tail(buf.items), buf'.appended[Len(buf'.appended)])
              ELSE buf'.items = Append(buf.items, buf'.appended[Len(buf'.appended)]) ]_vars

\* an append onto a full buffer of capacity 3 has evicted the oldest entry
C14_Witness ==
    /\ buf.capacity = MaxCapacity
    /\ Len(buf.appended) = buf.capacity + 1
    /\ buf.items = Tail(buf.appended)
    /\ ret.op = "object_update" /\ ~ret.raised

\* C15 - lastN(n) returns the min(n, count) most recently appended states,
\* oldest first: nothing for n <= 0, every stored entry when n exceeds the
\* count, and it leaves the buffer as it was.
C15_LastNNewest ==
    [][ \A n \in (0 - 1)..(MaxAppends + 1) :
          HistoryLastN(n) =>
            LET count == Min(Len(buf.appended), buf.capacity)
                m     == IF n <= 0 THEN 0 ELSE Min(n, count)
            IN  /\ buf'.read = Newest(buf.appended, m)
                /\ Len(buf'.read) = m
                /\ buf'.items = buf.items ]_vars

\* capacity 3, four appends a,b,c,d, lastN(2) returned <<c, d>>
C15_Witness ==
    /\ buf.capacity = 3
    /\ Len(buf.appended) = 4
    /\ buf.n = 2
    /\ buf.read = <<buf.appended[3], buf.appended[4]>>
    /\ buf.read # << >>
    /\ ret.op = "lastN"

Stepping == run.phase = "Stepping"

\* the object whose update() the next pass of the loop calls
Current == nodes[run.cursor + 1].object

\* C17 - no mutation during a step: while Graph.update() is in progress the
\* nodes stay as they are (an add_object / remove_object made meanwhile has
\* no effect before the step is over), and when the step is over without an
\* update() having raised, the objects ticked are exactly the members the
\* step began with, once each.
C17_MembershipFixedWhileStepping ==
    [][ /\ Stepping => nodes' = nodes
        /\ (Stepping /\ run'.phase = "Idle" /\ ret'.by = None) =>
              \A o \in Objs :
                 ticked'[o] =
                    IF \E i \in 1..Len(run.began) : run.began[i].object = o
                    THEN 1 ELSE 0 ]_vars

\* C18 - sequential steps: a step begins only in Idle, and the step that
\* returns to Idle leaves the aggregate finalized, with one entry for each
\* member it began with.
C18_StepsSequentialAndFinalized ==
    [][ /\ run'.phase = "Stepping" /\ run'.cursor = 0 => run.phase = "Idle"
        /\ (Stepping /\ run'.phase = "Idle") =>
              DOMAIN object_states' =
                 {run.began[i].id : i \in 1..Len(run.began)} ]_vars

\* C19 - order inside a tick: the custom behaviour of the object runs
\* against the clock as advanced by this tick, that is, the clock the
\* object has when its update() returns.
C19_BehaviourSeesAdvancedClock ==
    [][ (Stepping /\ run'.phase = "Stepping" /\ run'.cursor = run.cursor + 1) =>
            run'.saw = <<objs'[Current].cycle, objs'[Current].step>> ]_vars

\* C20 - frame conditions: a pass of the loop changes the fields of the
\* object it ticks and of no other; a step leaves the nodes as they are;
\* the aggregate a caller got from a step changes only by the caller getting
\* the next one.
C20_StepFrame ==
    [][ /\ Stepping =>
              /\ \A p \in Objs : objs'[p] # objs[p] => p = Current
              /\ nodes' = nodes
        /\ run'.held.value # run.held.value =>
              /\ Stepping /\ run'.phase = "Idle" /\ ~ret'.raised
              /\ run'.held.value = object_states ]_vars

\* the second of two members is being ticked in a later step while the
\* caller holds the aggregate of an earlier step, which had an entry
C20_Witness ==
    /\ Stepping
    /\ Len(nodes) = 2
    /\ run.cursor = 2
    /\ run.held.value # EmptyMap
    /\ run.held.value # object_states
    /\ \A o \in Objs : ticks[o] = 2

====
